---- MODULE Spec2Model ----
(***************************************************************************)
(* Model of the video/IMU fusion controller of                             *)
(* plugins/videoimufusion/VideoIMUFusion.cpp.                              *)
(*                                                                         *)
(* The controller is callback driven and single threaded: every action of  *)
(* the model is one complete report callback.  Geometry is reduced to one  *)
(* dimension: a rotation is a sign (1 or -1), a translation an integer and *)
(* an isometry x |-> rotation * x + translation, so composition and        *)
(* inversion keep their non-commutative structure.  Elapsed times are kept *)
(* in microseconds, i.e. the double computed by secondsElapsed times 1e6.  *)
(***************************************************************************)
EXTENDS Integers, Sequences, FiniteSets, TLC

(***************************************************************************)
(* Bounds of the model.                                                    *)
(***************************************************************************)
\* the timestamps are the first MaxTime + 1 of (0, 0), (0, 999999), (1, 0),
\* (1, 999999), (2, 0), ...
MaxTime == 2
\* number of reports delivered after the controller is Running
MaxRunReports == 3

(***************************************************************************)
(* Program constants.                                                      *)
(***************************************************************************)
UsecPerSec == 1000000
FUSED_SENSOR_ID == 0
TRANSFORMED_VIDEO_SENSOR_ID == 1
REQUIRED_SAMPLES == 10
\* every entry of the InitialStateError diagonal
InitialStateError == 1

(***************************************************************************)
(* Input domains.                                                          *)
(***************************************************************************)
UsecValues == <<0, 999999>>
TimeValues == {[seconds |-> k \div 2, microseconds |-> UsecValues[(k % 2) + 1]] :
                  k \in 0..MaxTime}
\* an orientation: a unit "quaternion" of the one-dimensional geometry
Quats == {1, -1}
\* a pose: rotation and translation
PoseValues == {[rotation |-> 1, translation |-> 0],
               [rotation |-> -1, translation |-> 1]}

\* OSVR_TimeValue{} / OSVR_OrientationState{} / OSVR_PoseState{}: value
\* initialisation zeroes every field
ZeroTime == [seconds |-> 0, microseconds |-> 0]
ZeroQuat == 0
ZeroPose == [rotation |-> 0, translation |-> 0]

VARIABLES
    m_state,        \* State::AcquiringCameraPose or State::Running
    m_startupData,  \* unique_ptr<StartupData>: <<>> or <<record>>
    m_runningData,  \* unique_ptr<RunningData>: <<>> or <<record>>
    m_cTr,          \* camera to room transform kept by the controller
    imuState,       \* the IMU interface's last known state: <<>> or <<record>>
    videoState,     \* the video tracker interface's last known state
    calls,          \* filter calls made by the last callback, in order
    sent,           \* poses sent to the tracker output by the last callback
    lastReport,     \* the report the last callback was delivered
    nStartupPose,   \* pose reports delivered in acquisition with an IMU state
                    \* (the count stops one past REQUIRED_SAMPLES)
    nTransitions,   \* how many times enterRunningState has run
    nOri,           \* orientation reports delivered while Running
    nPose,          \* pose reports delivered while Running
    nCycles,        \* predict+correct cycles done
    nFused,         \* poses sent on the fused channel
    inOrder         \* every Running report was later than its sensor's last

vars == <<m_state, m_startupData, m_runningData, m_cTr, imuState, videoState,
          calls, sent, lastReport, nStartupPose, nTransitions, nOri, nPose,
          nCycles, nFused, inOrder>>

(***************************************************************************)
(* Geometry helpers (Eigen::Isometry3d in one dimension).                  *)
(***************************************************************************)
Isometry(rot, trans) == [rotation |-> rot, translation |-> trans]
Identity == Isometry(1, 0)
Compose(a, b) == Isometry(a.rotation * b.rotation,
                          a.rotation * b.translation + a.translation)
Inverse(a) == Isometry(a.rotation, (0 - a.rotation) * a.translation)
fromPose(pose) == Isometry(pose.rotation, pose.translation)
fromQuat(q) == q
toPose(iso) == [rotation |-> iso.rotation, translation |-> iso.translation]

(***************************************************************************)
(* secondsElapsed: (later.us - earlier.us) / 1e6 + (later.s - earlier.s),  *)
(* here in microseconds.  The fields are far from the limits of int32 and  *)
(* int64 and the double rounding of the quotient keeps the sign.           *)
(***************************************************************************)
\* secondsElapsed with the microseconds subtracted the wrong way round
secondsElapsed_swapped(earlier, later) ==
    (earlier.microseconds - later.microseconds)
        + UsecPerSec * (later.seconds - earlier.seconds)

secondsElapsed(earlier, later) ==
    (later.microseconds - earlier.microseconds)
        + UsecPerSec * (later.seconds - earlier.seconds)

(***************************************************************************)
(* Lexicographic order of timestamps, used to state the claims.            *)
(***************************************************************************)
TimeOrder(earlier, later) ==
    IF later.seconds > earlier.seconds THEN "after"
    ELSE IF later.seconds < earlier.seconds THEN "before"
    ELSE IF later.microseconds > earlier.microseconds THEN "after"
    ELSE IF later.microseconds < earlier.microseconds THEN "before"
    ELSE "equal"

\* an entry of the call log: the operation, its dt and its other arguments
Call(op, dt, arg) == [op |-> op, dt |-> dt, arg |-> arg]

(***************************************************************************)
(* filters::OneEuroFilter (osvr/Util/EigenFilters.h).  The first call      *)
(* seeds the state with the raw sample.  Later the output is a blend whose *)
(* weight grows with dt; in the discrete geometry the blend follows the    *)
(* sample when at least a second has passed and keeps the estimate when    *)
(* less has.                                                               *)
(***************************************************************************)
OneEuroFilter == [firstTime |-> TRUE, state |-> 0]

OneEuroFilter_filter(f, dt, x) ==
    [firstTime |-> FALSE,
     state |-> IF f.firstTime \/ dt >= UsecPerSec THEN x ELSE f.state]

(***************************************************************************)
(* osvr::kalman::FlexibleKalmanFilter<PoseDampedConstantVelocity>.         *)
(* The state vector has position, velocity, incremental orientation and    *)
(* angular velocity; the orientation is the external quaternion.  The      *)
(* error covariance is kept as a level: the initial diagonal, grown by a   *)
(* prediction, shrunk by a correction.                                     *)
(***************************************************************************)
DefaultNoiseAutocorrelation == 4
CovCorrected == 0
CovPredicted == 2

ZeroStateVector == [position |-> 0, velocity |-> 0,
                    incrementalOrientation |-> 0, angularVelocity |-> 0]

Filter == [stateVector |-> ZeroStateVector,
           quaternion |-> 1,
           errorCovariance |-> InitialStateError,
           noiseAutocorrelation |-> DefaultNoiseAutocorrelation]

\* x' = f(x, dt), P' = F P F^T + Q(dt); the velocities are damped
Filter_predict(f, dt) ==
    [f EXCEPT !.stateVector.position = @ + f.stateVector.velocity * dt,
              !.stateVector.incrementalOrientation =
                   @ + f.stateVector.angularVelocity * dt,
              !.errorCovariance = CovPredicted]

\* x += K y, P = (I - K H) P, then the incremental orientation is folded
\* into the quaternion and reset
Filter_correct(f, meas) ==
    [f EXCEPT !.stateVector.position =
                   IF meas.kind = "pose" THEN meas.position ELSE @,
              !.stateVector.incrementalOrientation = 0,
              !.quaternion = meas.orientation,
              !.errorCovariance = CovCorrected]

AbsoluteOrientationMeasurement(q) ==
    [kind |-> "orientation", position |-> 0, orientation |-> q]
AbsolutePoseMeasurement(pos, ori) ==
    [kind |-> "pose", position |-> pos, orientation |-> ori]

(***************************************************************************)
(* class VideoIMUFusion::RunningData                                       *)
(***************************************************************************)
takeCameraPoseToRoom(rd, pose) == Compose(rd.m_cTr, fromPose(pose))

\* RunningData that leaves the process model's noise scale as constructed
RunningData_unscaled(cTr, initialIMU, initialVideo, lastPosition, lastIMU) ==
    LET roomPose == Compose(cTr, fromPose(initialVideo))
    IN  [m_filter |->
             [stateVector |->
                  [ZeroStateVector EXCEPT !.position = roomPose.translation],
              quaternion |-> roomPose.rotation,
              errorCovariance |-> InitialStateError,
              noiseAutocorrelation |-> Filter.noiseAutocorrelation],
         m_cTr |-> cTr,
         m_orientation |-> fromQuat(initialIMU),
         m_lastPosition |-> lastPosition,
         m_lastIMU |-> lastIMU]

RunningData(cTr, initialIMU, initialVideo, lastPosition, lastIMU) ==
    LET roomPose == Compose(cTr, fromPose(initialVideo))
    IN  [m_filter |->
             [stateVector |->
                  [ZeroStateVector EXCEPT !.position = roomPose.translation],
              quaternion |-> roomPose.rotation,
              errorCovariance |-> InitialStateError,
              noiseAutocorrelation |-> Filter.noiseAutocorrelation \div 2],
         m_cTr |-> cTr,
         m_orientation |-> fromQuat(initialIMU),
         m_lastPosition |-> lastPosition,
         m_lastIMU |-> lastIMU]

\* preReport that does not record the timestamp it accepts
preReport_noUpdate(rd, timestamp, last) ==
    LET dt == secondsElapsed(rd[last], timestamp)
        elapsed == Call("secondsElapsed", dt, <<rd[last], timestamp>>)
    IN  IF dt <= 0
        THEN [ok |-> FALSE, rd |-> rd, calls |-> <<elapsed>>]
        ELSE [ok |-> TRUE,
              rd |-> [rd EXCEPT !.m_filter = Filter_predict(@, dt)],
              calls |-> <<elapsed, Call("predict", dt, "none")>>]

\* preReport that lets a repeated timestamp through (dt < 0 for dt <= 0)
preReport_zeroDt(rd, timestamp, last) ==
    LET dt == secondsElapsed(rd[last], timestamp)
        elapsed == Call("secondsElapsed", dt, <<rd[last], timestamp>>)
    IN  IF dt < 0
        THEN [ok |-> FALSE, rd |-> rd, calls |-> <<elapsed>>]
        ELSE [ok |-> TRUE,
              rd |-> [rd EXCEPT ![last] = timestamp,
                                !.m_filter = Filter_predict(@, dt)],
              calls |-> <<elapsed, Call("predict", dt, "none")>>]

\* preReport with one last-seen timestamp for both sensors
preReport_blocking(rd, timestamp, last) ==
    LET dt == secondsElapsed(rd[last], timestamp)
        elapsed == Call("secondsElapsed", dt, <<rd[last], timestamp>>)
    IN  IF dt <= 0
        THEN [ok |-> FALSE, rd |-> rd, calls |-> <<elapsed>>]
        ELSE [ok |-> TRUE,
              rd |-> [rd EXCEPT !.m_lastPosition = timestamp,
                                !.m_lastIMU = timestamp,
                                !.m_filter = Filter_predict(@, dt)],
              calls |-> <<elapsed, Call("predict", dt, "none")>>]

\* preReport rejecting only a report of the very same time
preReport_backwards(rd, timestamp, last) ==
    LET dt == secondsElapsed(rd[last], timestamp)
        elapsed == Call("secondsElapsed", dt, <<rd[last], timestamp>>)
    IN  IF dt = 0
        THEN [ok |-> FALSE, rd |-> rd, calls |-> <<elapsed>>]
        ELSE [ok |-> TRUE,
              rd |-> [rd EXCEPT ![last] = timestamp,
                                !.m_filter = Filter_predict(@, dt)],
              calls |-> <<elapsed, Call("predict", dt, "none")>>]

\* `last` is a reference to m_lastPosition or to m_lastIMU: it is named
preReport(rd, timestamp, last) ==
    LET dt == secondsElapsed(rd[last], timestamp)
        elapsed == Call("secondsElapsed", dt, <<rd[last], timestamp>>)
    IN  IF dt <= 0
        THEN [ok |-> FALSE, rd |-> rd, calls |-> <<elapsed>>]
        ELSE [ok |-> TRUE,
              rd |-> [rd EXCEPT ![last] = timestamp,
                                !.m_filter = Filter_predict(@, dt)],
              calls |-> <<elapsed, Call("predict", dt, "none")>>]

\* handleIMUReport gated by the last pose timestamp
handleIMUReport_wrongLast(rd, timestamp, report) ==
    LET rd1 == [rd EXCEPT !.m_orientation = fromQuat(report)]
        pre == preReport(rd1, timestamp, "m_lastPosition")
        meas == AbsoluteOrientationMeasurement(fromQuat(report))
    IN  IF pre.ok
        THEN [rd |-> [pre.rd EXCEPT !.m_filter = Filter_correct(@, meas)],
              calls |-> pre.calls \o <<Call("correct", 0, meas)>>]
        ELSE [rd |-> pre.rd, calls |-> pre.calls]

handleIMUReport(rd, timestamp, report) ==
    LET rd1 == [rd EXCEPT !.m_orientation = fromQuat(report)]
        pre == preReport(rd1, timestamp, "m_lastIMU")
        meas == AbsoluteOrientationMeasurement(fromQuat(report))
    IN  IF pre.ok
        THEN [rd |-> [pre.rd EXCEPT !.m_filter = Filter_correct(@, meas)],
              calls |-> pre.calls \o <<Call("correct", 0, meas)>>]
        ELSE [rd |-> pre.rd, calls |-> pre.calls]

handleVideoTrackerReport(rd, timestamp, report) ==
    LET roomPose == takeCameraPoseToRoom(rd, report)
        pre == preReport(rd, timestamp, "m_lastPosition")
        meas == AbsolutePoseMeasurement(roomPose.translation,
                                        roomPose.rotation)
    IN  IF pre.ok
        THEN [rd |-> [pre.rd EXCEPT !.m_filter = Filter_correct(@, meas)],
              calls |-> pre.calls \o <<Call("correct", 0, meas)>>]
        ELSE [rd |-> pre.rd, calls |-> pre.calls]

getOrientation(rd) == rd.m_filter.quaternion
getPosition(rd) == rd.m_filter.stateVector.position

(***************************************************************************)
(* class VideoIMUFusion::StartupData                                       *)
(***************************************************************************)
\* `now` is time::getNow() at construction
StartupData(now) ==
    [reports |-> 0, last |-> now,
     positionFilter |-> OneEuroFilter, orientationFilter |-> OneEuroFilter]

\* handleReport that does not record the timestamp of the sample
handleReport_keepLast(sd, timestamp, report, orientation) ==
    LET dt0 == secondsElapsed(sd.last, timestamp)
        dt == IF dt0 <= 0 THEN UsecPerSec ELSE dt0
        dTc == fromPose(report)
        cTr == Compose(Inverse(dTc), Isometry(fromQuat(orientation), 0))
    IN  [sd |-> [reports |-> sd.reports + 1,
                 last |-> sd.last,
                 positionFilter |->
                     OneEuroFilter_filter(sd.positionFilter, dt,
                                          cTr.translation),
                 orientationFilter |->
                     OneEuroFilter_filter(sd.orientationFilter, dt,
                                          cTr.rotation)],
         calls |-> <<Call("secondsElapsed", dt0, <<sd.last, timestamp>>),
                     Call("positionFilter.filter", dt, cTr.translation),
                     Call("orientationFilter.filter", dt, cTr.rotation)>>]

\* handleReport passing the elapsed time on as it is
handleReport_noSubstitute(sd, timestamp, report, orientation) ==
    LET dt0 == secondsElapsed(sd.last, timestamp)
        dt == dt0
        dTc == fromPose(report)
        cTr == Compose(Inverse(dTc), Isometry(fromQuat(orientation), 0))
    IN  [sd |-> [reports |-> sd.reports + 1,
                 last |-> timestamp,
                 positionFilter |->
                     OneEuroFilter_filter(sd.positionFilter, dt,
                                          cTr.translation),
                 orientationFilter |->
                     OneEuroFilter_filter(sd.orientationFilter, dt,
                                          cTr.rotation)],
         calls |-> <<Call("secondsElapsed", dt0, <<sd.last, timestamp>>),
                     Call("positionFilter.filter", dt, cTr.translation),
                     Call("orientationFilter.filter", dt, cTr.rotation)>>]

\* handleReport that does not count the sample
handleReport_noCount(sd, timestamp, report, orientation) ==
    LET dt0 == secondsElapsed(sd.last, timestamp)
        dt == IF dt0 <= 0 THEN UsecPerSec ELSE dt0
        dTc == fromPose(report)
        cTr == Compose(Inverse(dTc), Isometry(fromQuat(orientation), 0))
    IN  [sd |-> [reports |-> sd.reports,
                 last |-> timestamp,
                 positionFilter |->
                     OneEuroFilter_filter(sd.positionFilter, dt,
                                          cTr.translation),
                 orientationFilter |->
                     OneEuroFilter_filter(sd.orientationFilter, dt,
                                          cTr.rotation)],
         calls |-> <<Call("secondsElapsed", dt0, <<sd.last, timestamp>>),
                     Call("positionFilter.filter", dt, cTr.translation),
                     Call("orientationFilter.filter", dt, cTr.rotation)>>]

handleReport(sd, timestamp, report, orientation) ==
    LET dt0 == secondsElapsed(sd.last, timestamp)
        dt == IF dt0 <= 0 THEN UsecPerSec ELSE dt0
        dTc == fromPose(report)
        cTr == Compose(Inverse(dTc), Isometry(fromQuat(orientation), 0))
    IN  [sd |-> [reports |-> sd.reports + 1,
                 last |-> timestamp,
                 positionFilter |->
                     OneEuroFilter_filter(sd.positionFilter, dt,
                                          cTr.translation),
                 orientationFilter |->
                     OneEuroFilter_filter(sd.orientationFilter, dt,
                                          cTr.rotation)],
         calls |-> <<Call("secondsElapsed", dt0, <<sd.last, timestamp>>),
                     Call("positionFilter.filter", dt, cTr.translation),
                     Call("orientationFilter.filter", dt, cTr.rotation)>>]

\* finished with > for >=
finished_late(sd) == sd.reports > REQUIRED_SAMPLES

finished(sd) == sd.reports >= REQUIRED_SAMPLES

getRoomToCamera(sd) ==
    Isometry(sd.orientationFilter.state, sd.positionFilter.state)

(***************************************************************************)
(* The client interfaces (osvr/ClientKit/InterfaceStateC.h).  An interface *)
(* has no state until its first report; it records the state of a report   *)
(* before it calls the report's callbacks, and keeps the latest.           *)
(***************************************************************************)
InterfaceState(timestamp, state) == <<[timestamp |-> timestamp,
                                       state |-> state]>>

\* osvrGetOrientationState / osvrGetPoseState: on failure the out
\* parameters keep their value-initialised contents
osvrGetState(iface, zero) ==
    IF iface = <<>>
    THEN [ret |-> "OSVR_RETURN_FAILURE", timestamp |-> ZeroTime,
          state |-> zero]
    ELSE [ret |-> "OSVR_RETURN_SUCCESS", timestamp |-> iface[1].timestamp,
          state |-> iface[1].state]

\* osvrDeviceTrackerSendPoseTimestamped
Send(pose, sensor, timestamp) ==
    [sensor |-> sensor, timestamp |-> timestamp, pose |-> pose]

(***************************************************************************)
(* Reading the logs of a callback.                                         *)
(***************************************************************************)
\* how many entries of the call log are calls of op
RECURSIVE CountOp(_, _)
CountOp(log, op) ==
    IF log = <<>> THEN 0
    ELSE (IF Head(log).op = op THEN 1 ELSE 0) + CountOp(Tail(log), op)

\* how many poses were sent on a sensor channel
RECURSIVE CountSensor(_, _)
CountSensor(log, sensor) ==
    IF log = <<>> THEN 0
    ELSE (IF Head(log).sensor = sensor THEN 1 ELSE 0)
             + CountSensor(Tail(log), sensor)

\* a predict immediately followed by a correct
RECURSIVE CountCycles(_)
CountCycles(log) ==
    IF Len(log) < 2 THEN 0
    ELSE IF log[1].op = "predict" /\ log[2].op = "correct"
         THEN 1 + CountCycles(Tail(Tail(log)))
         ELSE CountCycles(Tail(log))

(***************************************************************************)
(* class VideoIMUFusion.  `self` is the controller: m_state,               *)
(* m_startupData, m_runningData and m_cTr.  A handler yields the           *)
(* controller after the callback, the filter calls it made and the poses   *)
(* it sent.                                                                *)
(***************************************************************************)
Result(self, c, s) == [self |-> self, calls |-> c, sent |-> s]

enterCameraPoseAcquisitionState(self, now) ==
    [self EXCEPT !.m_startupData = <<StartupData(now)>>,
                 !.m_state = "AcquiringCameraPose"]

\* the constructor: no running data yet, m_cTr is not initialised and holds
\* whatever `garbage` it finds, then enterCameraPoseAcquisitionState()
VideoIMUFusion(now, garbage) ==
    enterCameraPoseAcquisitionState(
        [m_state |-> "AcquiringCameraPose", m_startupData |-> <<>>,
         m_runningData |-> <<>>, m_cTr |-> garbage], now)

\* what the two state queries of enterRunningState return
stateQueries(imu, video) ==
    [imu |-> osvrGetState(imu, ZeroQuat).ret,
     video |-> osvrGetState(video, ZeroPose).ret]

\* enterRunningState that keeps the accumulator
enterRunningState_keepStartup(self, cTr, imu, video) ==
    LET ori == osvrGetState(imu, ZeroQuat)
        pos == osvrGetState(video, ZeroPose)
    IN  [m_cTr |-> cTr,
         m_state |-> "Running",
         m_runningData |-> <<RunningData(cTr, ori.state, pos.state,
                                         pos.timestamp, ori.timestamp)>>,
         m_startupData |-> self.m_startupData]

\* enterRunningState passing the two timestamps the other way round
enterRunningState_swapped(self, cTr, imu, video) ==
    LET ori == osvrGetState(imu, ZeroQuat)
        pos == osvrGetState(video, ZeroPose)
    IN  [m_cTr |-> cTr,
         m_state |-> "Running",
         m_runningData |-> <<RunningData(cTr, ori.state, pos.state,
                                         ori.timestamp, pos.timestamp)>>,
         m_startupData |-> <<>>]

enterRunningState(self, cTr, imu, video) ==
    LET ori == osvrGetState(imu, ZeroQuat)
        pos == osvrGetState(video, ZeroPose)
    IN  [m_cTr |-> cTr,
         m_state |-> "Running",
         m_runningData |-> <<RunningData(cTr, ori.state, pos.state,
                                         pos.timestamp, ori.timestamp)>>,
         m_startupData |-> <<>>]

\* handleIMUData restarting the acquisition on a report it does not filter
handleIMUData_reacquire(self, timestamp, report) ==
    IF self.m_state # "Running"
    THEN Result(self, <<>>, <<>>)
    ELSE LET r == handleIMUReport(self.m_runningData[1], timestamp, report)
             newPose == [rotation |-> getOrientation(r.rd),
                         translation |-> getPosition(r.rd)]
         IN  IF CountOp(r.calls, "correct") = 0
             THEN Result(enterCameraPoseAcquisitionState(self, timestamp),
                         r.calls, <<>>)
             ELSE Result([self EXCEPT !.m_runningData = <<r.rd>>],
                         r.calls,
                         <<Send(newPose, FUSED_SENSOR_ID, timestamp)>>)

\* handleIMUData stamping the accumulator with an orientation report's time
handleIMUData_touchesStartup(self, timestamp, report) ==
    IF self.m_state # "Running"
    THEN Result([self EXCEPT !.m_startupData[1].last = timestamp], <<>>, <<>>)
    ELSE LET r == handleIMUReport(self.m_runningData[1], timestamp, report)
             newPose == [rotation |-> getOrientation(r.rd),
                         translation |-> getPosition(r.rd)]
         IN  Result([self EXCEPT !.m_runningData = <<r.rd>>],
                    r.calls,
                    <<Send(newPose, FUSED_SENSOR_ID, timestamp)>>)

handleIMUData(self, timestamp, report) ==
    IF self.m_state # "Running"
    THEN Result(self, <<>>, <<>>)
    ELSE LET r == handleIMUReport(self.m_runningData[1], timestamp, report)
             newPose == [rotation |-> getOrientation(r.rd),
                         translation |-> getPosition(r.rd)]
         IN  Result([self EXCEPT !.m_runningData = <<r.rd>>],
                    r.calls,
                    <<Send(newPose, FUSED_SENSOR_ID, timestamp)>>)

\* handleVideoTrackerDataDuringStartup without the check of the query
handleVideoTrackerDataDuringStartup_noCheck(self, timestamp, report, imu, video) ==
    LET q == osvrGetState(imu, ZeroQuat)
        h == handleReport(self.m_startupData[1], timestamp, report, q.state)
    IN  IF finished(h.sd)
        THEN Result(enterRunningState(
                        [self EXCEPT !.m_startupData = <<h.sd>>],
                        getRoomToCamera(h.sd), imu, video),
                    h.calls \o <<Call("enterRunningState", 0,
                                      stateQueries(imu, video))>>,
                    <<>>)
        ELSE Result([self EXCEPT !.m_startupData = <<h.sd>>], h.calls, <<>>)

handleVideoTrackerDataDuringStartup(self, timestamp, report, imu, video) ==
    LET q == osvrGetState(imu, ZeroQuat)
    IN  IF q.ret # "OSVR_RETURN_SUCCESS"
        THEN Result(self, <<>>, <<>>)
        ELSE LET h == handleReport(self.m_startupData[1], timestamp, report,
                                   q.state)
             IN  IF finished(h.sd)
                 THEN Result(enterRunningState(
                                 [self EXCEPT !.m_startupData = <<h.sd>>],
                                 getRoomToCamera(h.sd), imu, video),
                             h.calls \o <<Call("enterRunningState", 0,
                                               stateQueries(imu, video))>>,
                             <<>>)
                 ELSE Result([self EXCEPT !.m_startupData = <<h.sd>>],
                             h.calls, <<>>)

\* handleVideoTrackerData leaving the main output to the IMU reports
handleVideoTrackerData_noFused(self, timestamp, report, imu, video) ==
    IF self.m_state = "AcquiringCameraPose"
    THEN handleVideoTrackerDataDuringStartup(self, timestamp, report, imu,
                                             video)
    ELSE LET r == handleVideoTrackerReport(self.m_runningData[1], timestamp,
                                           report)
             videoPose == takeCameraPoseToRoom(r.rd, report)
         IN  Result([self EXCEPT !.m_runningData = <<r.rd>>],
                    r.calls,
                    <<Send(toPose(videoPose), TRANSFORMED_VIDEO_SENSOR_ID,
                           timestamp)>>)

\* handleVideoTrackerData sending the re-oriented video pose on the fused
\* channel
handleVideoTrackerData_sameChannel(self, timestamp, report, imu, video) ==
    IF self.m_state = "AcquiringCameraPose"
    THEN handleVideoTrackerDataDuringStartup(self, timestamp, report, imu,
                                             video)
    ELSE LET r == handleVideoTrackerReport(self.m_runningData[1], timestamp,
                                           report)
             newPose == [rotation |-> getOrientation(r.rd),
                         translation |-> getPosition(r.rd)]
             videoPose == takeCameraPoseToRoom(r.rd, report)
         IN  Result([self EXCEPT !.m_runningData = <<r.rd>>],
                    r.calls,
                    <<Send(newPose, FUSED_SENSOR_ID, timestamp),
                      Send(toPose(videoPose), FUSED_SENSOR_ID, timestamp)>>)

\* handleVideoTrackerData going on to the Running branch after a transition
handleVideoTrackerData_fallthrough(self, timestamp, report, imu, video) ==
    LET s == IF self.m_state = "AcquiringCameraPose"
             THEN handleVideoTrackerDataDuringStartup(self, timestamp, report,
                                                      imu, video)
             ELSE Result(self, <<>>, <<>>)
    IN  IF s.self.m_state # "Running"
        THEN s
        ELSE LET r == handleVideoTrackerReport(s.self.m_runningData[1],
                                               timestamp, report)
                 newPose == [rotation |-> getOrientation(r.rd),
                             translation |-> getPosition(r.rd)]
                 videoPose == takeCameraPoseToRoom(r.rd, report)
             IN  Result([s.self EXCEPT !.m_runningData = <<r.rd>>],
                        s.calls \o r.calls,
                        <<Send(newPose, FUSED_SENSOR_ID, timestamp),
                          Send(toPose(videoPose), TRANSFORMED_VIDEO_SENSOR_ID,
                               timestamp)>>)

handleVideoTrackerData(self, timestamp, report, imu, video) ==
    IF self.m_state = "AcquiringCameraPose"
    THEN handleVideoTrackerDataDuringStartup(self, timestamp, report, imu,
                                             video)
    ELSE LET r == handleVideoTrackerReport(self.m_runningData[1], timestamp,
                                           report)
             newPose == [rotation |-> getOrientation(r.rd),
                         translation |-> getPosition(r.rd)]
             videoPose == takeCameraPoseToRoom(r.rd, report)
         IN  Result([self EXCEPT !.m_runningData = <<r.rd>>],
                    r.calls,
                    <<Send(newPose, FUSED_SENSOR_ID, timestamp),
                      Send(toPose(videoPose), TRANSFORMED_VIDEO_SENSOR_ID,
                           timestamp)>>)

(***************************************************************************)
(* The state machine.                                                      *)
(***************************************************************************)
Self == [m_state |-> m_state, m_startupData |-> m_startupData,
         m_runningData |-> m_runningData, m_cTr |-> m_cTr]

\* the last seen timestamp of a sensor, once Running
OwnLast(sensor) ==
    IF sensor = "imu" THEN m_runningData[1].m_lastIMU
    ELSE m_runningData[1].m_lastPosition

Report(sensor, timestamp, value) ==
    [sensor |-> sensor, timestamp |-> timestamp, value |-> value,
     state |-> m_state,
     order |-> IF m_state = "Running"
               THEN TimeOrder(OwnLast(sensor), timestamp) ELSE "none"]

\* the bookkeeping of a callback whose outcome is r (the actions bind r to
\* the outcome so that the handler is evaluated once a step)
Deliver(sensor, timestamp, iface, r) ==
    /\ m_state' = r.self.m_state
    /\ m_startupData' = r.self.m_startupData
    /\ m_runningData' = r.self.m_runningData
    /\ m_cTr' = r.self.m_cTr
    /\ calls' = r.calls
    /\ sent' = r.sent
    /\ nTransitions' = nTransitions + CountOp(r.calls, "enterRunningState")
    /\ nCycles' = nCycles + CountCycles(r.calls)
    /\ nFused' = nFused + CountSensor(r.sent, FUSED_SENSOR_ID)
    /\ nOri' = IF m_state = "Running" /\ sensor = "imu"
               THEN nOri + 1 ELSE nOri
    /\ nPose' = IF m_state = "Running" /\ sensor = "video"
                THEN nPose + 1 ELSE nPose
    /\ inOrder' = IF m_state = "Running"
                  THEN inOrder
                       /\ TimeOrder(iface[1].timestamp, timestamp) = "after"
                  ELSE inOrder

Init ==
    /\ \E now \in TimeValues, garbage \in {Identity, Isometry(-1, 1)} :
          /\ m_state = VideoIMUFusion(now, garbage).m_state
          /\ m_startupData = VideoIMUFusion(now, garbage).m_startupData
          /\ m_runningData = VideoIMUFusion(now, garbage).m_runningData
          /\ m_cTr = VideoIMUFusion(now, garbage).m_cTr
    /\ imuState = <<>>
    /\ videoState = <<>>
    /\ calls = <<>>
    /\ sent = <<>>
    /\ lastReport = [sensor |-> "none", timestamp |-> ZeroTime, value |-> 0,
                     state |-> "none", order |-> "none"]
    /\ nStartupPose = 0
    /\ nTransitions = 0
    /\ nOri = 0
    /\ nPose = 0
    /\ nCycles = 0
    /\ nFused = 0
    /\ inOrder = TRUE

\* the IMU interface receives an orientation report
OrientationReport ==
    \E timestamp \in TimeValues, report \in Quats :
        /\ m_state = "Running" => nOri + nPose < MaxRunReports
        /\ imuState' = InterfaceState(timestamp, report)
        /\ videoState' = videoState
        /\ lastReport' = Report("imu", timestamp, report)
        /\ nStartupPose' = nStartupPose
        /\ \E r \in {handleIMUData(Self, timestamp, report)} :
               Deliver("imu", timestamp, imuState, r)

\* the video tracker interface receives a pose report
PoseReport ==
    \E timestamp \in TimeValues, report \in PoseValues :
        /\ m_state = "Running" => nOri + nPose < MaxRunReports
        /\ videoState' = InterfaceState(timestamp, report)
        /\ imuState' = imuState
        /\ lastReport' = Report("video", timestamp, report)
        /\ nStartupPose' = IF /\ m_state = "AcquiringCameraPose"
                              /\ imuState # <<>>
                              /\ nStartupPose <= REQUIRED_SAMPLES
                           THEN nStartupPose + 1 ELSE nStartupPose
        /\ \E r \in {handleVideoTrackerData(Self, timestamp, report,
                                             imuState, videoState')} :
               Deliver("video", timestamp, videoState, r)

Next == OrientationReport \/ PoseReport

Spec == Init /\ [][Next]_vars

\* the video tracker keeps delivering pose reports while the controller
\* calibrates: a pose callback that is possible is not postponed for ever
FairSpec == Spec /\ WF_vars(m_state = "AcquiringCameraPose" /\ PoseReport)

(***************************************************************************)
(* Properties.                                                             *)
(***************************************************************************)
\* the last step was a callback delivering a report of `sensor` while the
\* controller was in `state`
Delivered(sensor, state) ==
    lastReport.sensor = sensor /\ lastReport.state = state

\* C1: the controller starts in AcquiringCameraPose, and once it is Running
\* no report callback ever makes it AcquiringCameraPose again.
C1_RunningIsTerminal ==
    /\ m_state = "AcquiringCameraPose"
    /\ [][m_state = "Running" => m_state' = "Running"]_vars

\* reports of both sensors, one of them not filtered, have been handled
\* after the transition
C1_Witness ==
    /\ m_state = "Running"
    /\ nOri >= 1 /\ nPose >= 1
    /\ ~inOrder

\* C2: the controller enters Running exactly once, in the pose report that
\* is the 10th calibration sample with an orientation state available:
\* before it the state is AcquiringCameraPose with the sample counter equal
\* to the number of such reports and below 10, the counter never exceeds
\* 10, and pose reports dropped for lack of an orientation state are not
\* counted.
C2_TransitionAtTenthSample ==
    /\ m_state \in {"AcquiringCameraPose", "Running"}
    /\ m_state = "AcquiringCameraPose" =>
          /\ m_startupData[1].reports = nStartupPose
          /\ nStartupPose < REQUIRED_SAMPLES
          /\ nTransitions = 0
    /\ m_state = "Running" =>
          /\ nStartupPose = REQUIRED_SAMPLES
          /\ nTransitions = 1
    /\ m_startupData # <<>> => m_startupData[1].reports <= REQUIRED_SAMPLES
    /\ CountOp(calls, "enterRunningState") > 0 =>
          /\ Delivered("video", "AcquiringCameraPose")
          /\ nStartupPose = REQUIRED_SAMPLES
          /\ m_state = "Running"

\* the callback of the 10th sample has just made the transition
C2_Witness ==
    /\ m_state = "Running"
    /\ Delivered("video", "AcquiringCameraPose")
    /\ CountOp(calls, "enterRunningState") = 1
    /\ nStartupPose = REQUIRED_SAMPLES

\* C3: in AcquiringCameraPose a pose report that finds no orientation state
\* is dropped: the accumulator (sample counter, last timestamp and both
\* smoothing filters) is unchanged, no filter is called, nothing is sent and
\* the controller stays in AcquiringCameraPose.
C3_DroppedWithoutOrientation ==
    [][(/\ m_state = "AcquiringCameraPose"
        /\ imuState = <<>>
        /\ lastReport'.sensor = "video")
       => /\ m_startupData' = m_startupData
          /\ m_state' = "AcquiringCameraPose"
          /\ m_runningData' = <<>>
          /\ calls' = <<>>
          /\ sent' = <<>>
          /\ nTransitions' = nTransitions]_vars

\* a pose report has just been delivered with no orientation state
C3_Witness ==
    /\ Delivered("video", "AcquiringCameraPose")
    /\ imuState = <<>>
    /\ videoState # <<>>

\* a timestamp in microseconds, and the elapsed time between two
TimeMicros(t) == t.seconds * UsecPerSec + t.microseconds
Elapsed(earlier, later) == TimeMicros(later) - TimeMicros(earlier)

\* the predict and correct calls of a log
FilterCalls(log) ==
    SelectSeq(log, LAMBDA c : c.op \in {"predict", "correct"})

\* this step is the callback of a report of `sensor`, delivered in Running
RunningStep(sensor) ==
    /\ m_state = "Running"
    /\ lastReport'.sensor = sensor
    /\ nOri' + nPose' = nOri + nPose + 1

\* the measurement made of the report of the last callback
MeasurementOf(report, cTr) ==
    IF report.sensor = "imu"
    THEN AbsoluteOrientationMeasurement(report.value)
    ELSE AbsolutePoseMeasurement(
             Compose(cTr, fromPose(report.value)).translation,
             Compose(cTr, fromPose(report.value)).rotation)

\* C4: in Running a report whose elapsed time dt since its own sensor's
\* last-seen timestamp is > 0 causes exactly one predict(dt) and then
\* exactly one correct of the report's measurement, and sets that sensor's
\* last-seen timestamp to the report's; a correct always has the predict of
\* the same report immediately before it.
C4_PredictThenCorrect ==
    [][/\ \A s \in {"imu", "video"} :
            (RunningStep(s)
             /\ Elapsed(OwnLast(s), lastReport'.timestamp) > 0)
            => LET f == FilterCalls(calls')
               IN  /\ Len(f) = 2
                   /\ f[1].op = "predict"
                   /\ f[1].dt = Elapsed(OwnLast(s), lastReport'.timestamp)
                   /\ f[2].op = "correct"
                   /\ f[2].arg = MeasurementOf(lastReport', m_cTr)
                   /\ OwnLast(s)' = lastReport'.timestamp
       /\ \A i \in 1..Len(calls') :
            calls'[i].op = "correct"
            => i > 1 /\ calls'[i - 1].op = "predict"]_vars

\* a report later than its sensor's last-seen timestamp has been filtered
C4_Witness ==
    /\ Delivered("video", "Running")
    /\ lastReport.order = "after"
    /\ CountCycles(calls) = 1
    /\ m_runningData[1].m_lastPosition = lastReport.timestamp

\* C5: in Running a report whose elapsed time since its own sensor's
\* last-seen timestamp is <= 0 is skipped: neither predict nor correct is
\* called, the filter (state vector, quaternion, error covariance) and both
\* last-seen timestamps are unchanged; predict is never called with dt <= 0.
C5_NonPositiveDtSkipped ==
    [][/\ \A s \in {"imu", "video"} :
            (RunningStep(s)
             /\ Elapsed(OwnLast(s), lastReport'.timestamp) <= 0)
            => /\ FilterCalls(calls') = <<>>
               /\ m_runningData'[1].m_filter = m_runningData[1].m_filter
               /\ m_runningData'[1].m_lastPosition
                      = m_runningData[1].m_lastPosition
               /\ m_runningData'[1].m_lastIMU = m_runningData[1].m_lastIMU
       /\ \A i \in 1..Len(calls') :
            calls'[i].op = "predict" => calls'[i].dt > 0]_vars

\* a report with a repeated timestamp has been skipped by a filter that had
\* already been corrected
C5_Witness ==
    /\ Delivered("imu", "Running")
    /\ lastReport.order = "equal"
    /\ FilterCalls(calls) = <<>>
    /\ m_runningData[1].m_filter.errorCovariance = CovCorrected

\* the fused pose a callback sends: the filter's quaternion and position,
\* under the report's timestamp
FusedPose ==
    Send([rotation |-> getOrientation(m_runningData[1]),
          translation |-> getPosition(m_runningData[1])],
         FUSED_SENSOR_ID, lastReport.timestamp)

\* C6 as stated: a fused pose is sent after a correction and only then, so
\* a Running report skipped for its dt sends none.
C6_FusedOnlyAfterCorrection ==
    /\ CountOp(calls, "correct") = 1 =>
          CountSensor(sent, FUSED_SENSOR_ID) = 1 /\ sent[1] = FusedPose
    /\ CountOp(calls, "correct") = 0 =>
          CountSensor(sent, FUSED_SENSOR_ID) = 0

\* C6 (amended): every report handled in Running, corrected or skipped,
\* sends exactly one fused pose on the primary channel, first, with the
\* filter's current estimate and the report's timestamp; so every
\* correction is followed by one.  A report handled in AcquiringCameraPose
\* sends nothing.
C6_FusedPerRunningReport ==
    /\ lastReport.state = "Running" =>
          /\ CountSensor(sent, FUSED_SENSOR_ID) = 1
          /\ sent[1] = FusedPose
    /\ lastReport.state # "Running" => sent = <<>>
    /\ CountOp(calls, "correct") <= 1
    /\ CountOp(calls, "correct") = 1 => lastReport.state = "Running"

\* a pose report skipped for its dt has sent a fused pose
C6_Witness ==
    /\ Delivered("video", "Running")
    /\ lastReport.order = "before"
    /\ CountOp(calls, "correct") = 0
    /\ CountSensor(sent, FUSED_SENSOR_ID) = 1

\* C7: in Running an orientation report leaves the last-pose timestamp
\* alone and a pose report the last-orientation timestamp; the elapsed time
\* a report is gated by is taken from its own sensor's last-seen timestamp,
\* and the report is filtered exactly when its timestamp is after that one.
C7_IndependentGating ==
    [][\A s \in {"imu", "video"} :
          RunningStep(s)
          => /\ s = "imu" => m_runningData'[1].m_lastPosition
                                 = m_runningData[1].m_lastPosition
             /\ s = "video" => m_runningData'[1].m_lastIMU
                                   = m_runningData[1].m_lastIMU
             /\ \A i \in 1..Len(calls') :
                   calls'[i].op = "secondsElapsed"
                   => calls'[i].arg = <<OwnLast(s), lastReport'.timestamp>>
             /\ CountCycles(calls') = 1
                  <=> TimeOrder(OwnLast(s), lastReport'.timestamp) = "after"
             /\ CountCycles(calls') = 0
                  <=> TimeOrder(OwnLast(s), lastReport'.timestamp) # "after"
      ]_vars

\* an orientation report has been filtered although it is not later than
\* the last filtered pose report
C7_Witness ==
    /\ Delivered("imu", "Running")
    /\ lastReport.order = "after"
    /\ CountCycles(calls) = 1
    /\ TimeOrder(m_runningData[1].m_lastPosition, lastReport.timestamp)
           # "after"

\* C8: while every report delivered in Running is later than the previous
\* report of its own sensor (the first one later than the seeded last-seen
\* timestamp), none is dropped: the nOri + nPose reports have had nOri +
\* nPose predict+correct cycles and nOri + nPose fused poses were sent.
C8_NoReportDropped ==
    inOrder => /\ nCycles = nOri + nPose
               /\ nFused = nOri + nPose

\* reports of both sensors have been interleaved in order
C8_Witness ==
    /\ inOrder
    /\ nOri >= 1 /\ nPose >= 1
    /\ nOri + nPose >= 3
    /\ nFused = nOri + nPose

\* C9: a callback sends only on the channels 0 and 1; what goes to channel
\* 0 is the fused estimate and what goes to channel 1 is the report's pose
\* taken to the room by the camera transform; a pose report handled in
\* Running sends exactly one pose on channel 1, with its timestamp, and an
\* orientation report none.
C9_TwoChannels ==
    /\ \A i \in 1..Len(sent) :
          /\ sent[i].sensor \in {FUSED_SENSOR_ID, TRANSFORMED_VIDEO_SENSOR_ID}
          /\ sent[i].sensor = FUSED_SENSOR_ID => sent[i] = FusedPose
          /\ sent[i].sensor = TRANSFORMED_VIDEO_SENSOR_ID =>
                /\ lastReport.sensor = "video"
                /\ sent[i] = Send(toPose(Compose(m_cTr,
                                             fromPose(lastReport.value))),
                                  TRANSFORMED_VIDEO_SENSOR_ID,
                                  lastReport.timestamp)
    /\ Delivered("video", "Running") =>
          CountSensor(sent, TRANSFORMED_VIDEO_SENSOR_ID) = 1
    /\ lastReport.sensor = "imu" =>
          CountSensor(sent, TRANSFORMED_VIDEO_SENSOR_ID) = 0

\* a pose report handled in Running has sent a raw room pose that differs
\* from the fused estimate
C9_Witness ==
    /\ Delivered("video", "Running")
    /\ Len(sent) = 2
    /\ sent[2].sensor = TRANSFORMED_VIDEO_SENSOR_ID
    /\ sent[2].pose # sent[1].pose

\* C10: the elapsed time of every secondsElapsed call is (later.seconds -
\* earlier.seconds) + (later.microseconds - earlier.microseconds) / 1e6; it
\* is > 0 exactly when later is after earlier in the order of (seconds,
\* microseconds) pairs, 0 when they are equal and < 0 when it is before.
C10_ElapsedSign ==
    \A i \in 1..Len(calls) :
        calls[i].op = "secondsElapsed"
        => LET earlier == calls[i].arg[1]
               later == calls[i].arg[2]
               dt == calls[i].dt
           IN  /\ earlier.microseconds \in 0..(UsecPerSec - 1)
               /\ later.microseconds \in 0..(UsecPerSec - 1)
               /\ dt = UsecPerSec * (later.seconds - earlier.seconds)
                          + (later.microseconds - earlier.microseconds)
               /\ dt > 0 <=> TimeOrder(earlier, later) = "after"
               /\ dt = 0 <=> TimeOrder(earlier, later) = "equal"
               /\ dt < 0 <=> TimeOrder(earlier, later) = "before"

\* the elapsed time was taken over a second boundary: fewer microseconds,
\* more seconds
C10_Witness ==
    \E i \in 1..Len(calls) :
        /\ calls[i].op = "secondsElapsed"
        /\ calls[i].arg[2].microseconds < calls[i].arg[1].microseconds
        /\ calls[i].arg[2].seconds > calls[i].arg[1].seconds
        /\ calls[i].dt > 0

\* this step is a pose report's callback that feeds the accumulator
SampleStep ==
    /\ m_state = "AcquiringCameraPose"
    /\ imuState # <<>>
    /\ lastReport'.sensor = "video"
    /\ nStartupPose' = nStartupPose + 1

\* the calls of `op` in a log
DtOf(log, op) == SelectSeq(log, LAMBDA c : c.op = op)

\* C11 as stated: the dt of a sample is the elapsed time since the previous
\* sample, and 1 second for the first sample.
C11_FirstSampleDtIsOne ==
    (Delivered("video", "AcquiringCameraPose") /\ Len(calls) >= 3)
    => LET dt == IF nStartupPose = 1 THEN UsecPerSec
                 ELSE Elapsed(calls[1].arg[1], lastReport.timestamp)
       IN  /\ calls[2].op = "positionFilter.filter" /\ calls[2].dt = dt
           /\ calls[3].op = "orientationFilter.filter" /\ calls[3].dt = dt

\* C11 (amended): each sample feeds both smoothing filters once with the
\* same dt: the elapsed time since the accumulator's last timestamp when
\* that is > 0, and 1 second otherwise.  The last timestamp is the
\* construction time until the first sample and the timestamp of the
\* previous sample from then on.
C11_SampleDt ==
    [][SampleStep =>
          LET e == Elapsed(m_startupData[1].last, lastReport'.timestamp)
              dt == IF e > 0 THEN e ELSE UsecPerSec
              p == DtOf(calls', "positionFilter.filter")
              o == DtOf(calls', "orientationFilter.filter")
          IN  /\ Len(p) = 1 /\ p[1].dt = dt
              /\ Len(o) = 1 /\ o[1].dt = dt
              /\ m_startupData[1].reports > 0 =>
                    m_startupData[1].last = videoState[1].timestamp
              /\ m_startupData' # <<>> =>
                    m_startupData'[1].last = lastReport'.timestamp]_vars

\* the first sample was fed with the time since construction, not 1 second
C11_Witness ==
    /\ Delivered("video", "AcquiringCameraPose")
    /\ nStartupPose = 1
    /\ Len(calls) = 3
    /\ calls[2].op = "positionFilter.filter"
    /\ calls[2].dt # UsecPerSec

\* C12: calibration has no timeout but completes when pose reports keep
\* coming: once an orientation state is available (it stays available) the
\* controller eventually is Running; as long as none is available it stays
\* in AcquiringCameraPose with no sample counted, however many pose reports
\* arrive.
C12_CalibrationCompletes ==
    /\ [](imuState = <<>> =>
             /\ m_state = "AcquiringCameraPose"
             /\ m_startupData[1].reports = 0)
    /\ [][imuState # <<>> => imuState' # <<>>]_vars
    /\ (imuState # <<>>) ~> (m_state = "Running")

\* calibration has completed: the pose report just delivered was the tenth
\* sample and made the transition
C12_Witness ==
    /\ m_state = "Running"
    /\ nTransitions = 1
    /\ imuState # <<>>
    /\ nOri = 0 /\ nPose = 0
    /\ lastReport.sensor = "video"

\* operations of the calibration accumulator / of the running filter data
StartupOps == {"positionFilter.filter", "orientationFilter.filter"}

RunningOps == {"predict", "correct"}

\* C13: between callbacks the controller holds exactly one payload, the one
\* of its state: the accumulator exists iff the state is AcquiringCameraPose,
\* the running data iff it is Running, never both and never neither; and the
\* callback just served used only the payload of the state it was served in.
C13_OnePayload ==
    /\ m_state \in {"AcquiringCameraPose", "Running"}
    /\ (m_startupData # <<>>) <=> (m_state = "AcquiringCameraPose")
    /\ (m_runningData # <<>>) <=> (m_state = "Running")
    /\ Len(m_startupData) + Len(m_runningData) = 1
    /\ \A i \in 1..Len(calls) :
           /\ calls[i].op \in StartupOps => lastReport.state = "AcquiringCameraPose"
           /\ calls[i].op \in RunningOps => lastReport.state = "Running"

\* the transition has discarded the accumulator and both kinds of report
\* have since been served from the running data
C13_Witness ==
    /\ m_state = "Running"
    /\ m_startupData = <<>>
    /\ m_runningData # <<>>
    /\ nTransitions = 1
    /\ nOri > 0 /\ nPose > 0
    /\ CountOp(calls, "correct") = 1

\* C14: every call of the smoothing filters during calibration gets dt > 0:
\* when the time elapsed since the accumulator's last timestamp is <= 0
\* (duplicate, out of order, or not after its creation time) dt is 1 s, and
\* the sample is accepted and counted all the same.
C14_PositiveDt ==
    [][SampleStep =>
          LET e == Elapsed(m_startupData[1].last, lastReport'.timestamp)
              f == SelectSeq(calls', LAMBDA c : c.op \in StartupOps)
          IN  /\ Len(f) = 2
              /\ \A i \in 1..Len(f) :
                     /\ f[i].dt > 0
                     /\ e <= 0 => f[i].dt = UsecPerSec
              /\ IF m_startupData[1].reports + 1 < REQUIRED_SAMPLES
                 THEN /\ m_startupData' # <<>>
                      /\ m_startupData'[1].reports = m_startupData[1].reports + 1
                 ELSE m_state' = "Running"]_vars

\* a sample whose timestamp is earlier than the one before it was smoothed
\* with dt = 1 s and counted
C14_Witness ==
    /\ Delivered("video", "AcquiringCameraPose")
    /\ m_state = "AcquiringCameraPose"
    /\ nStartupPose >= 2
    /\ m_startupData[1].reports = nStartupPose
    /\ Len(calls) = 3
    /\ calls[1].op = "secondsElapsed"
    /\ Elapsed(calls[1].arg[1], lastReport.timestamp) < 0
    /\ calls[2].dt = UsecPerSec
    /\ calls[3].dt = UsecPerSec

\* the log entries of enterRunningState
Transitions(log) == SelectSeq(log, LAMBDA c : c.op = "enterRunningState")

\* C15: the assertions of the transition hold: whenever enterRunningState
\* runs, the query of the last orientation state and the query of the last
\* pose state both succeed (an available state stays available, and a
\* sensor's state is recorded before its callback is served).
C15_QueriesSucceed ==
    /\ \A i \in 1..Len(Transitions(calls)) :
           /\ Transitions(calls)[i].arg.imu = "OSVR_RETURN_SUCCESS"
           /\ Transitions(calls)[i].arg.video = "OSVR_RETURN_SUCCESS"
    /\ Transitions(calls) # <<>> =>
           /\ imuState # <<>> /\ videoState # <<>>
           /\ videoState[1].timestamp = lastReport.timestamp
           /\ videoState[1].state = lastReport.value
    /\ m_state = "Running" => imuState # <<>> /\ videoState # <<>>

\* enterRunningState has just run on a pose report whose state the pose
\* query returned, with an orientation state of another time
C15_Witness ==
    /\ Len(Transitions(calls)) = 1
    /\ Transitions(calls)[1].arg.imu = "OSVR_RETURN_SUCCESS"
    /\ Transitions(calls)[1].arg.video = "OSVR_RETURN_SUCCESS"
    /\ lastReport.sensor = "video"
    /\ imuState # <<>>
    /\ imuState[1].timestamp # lastReport.timestamp

\* the noise-autocorrelation scale of the running filter's process model
NoiseScale == m_runningData[1].m_filter.noiseAutocorrelation

\* C16 as stated: the running filter starts with the process model's
\* noise-autocorrelation scale doubled, and no later report rescales it.
C16_NoiseDoubledOnce ==
    m_state = "Running" => NoiseScale = 2 * DefaultNoiseAutocorrelation

\* C16: the running filter starts with the process model's
\* noise-autocorrelation scale halved (multiplied by 0.5), and no later
\* report rescales it: it is half the default for as long as the controller
\* is Running.
C16_NoiseHalvedOnce ==
    /\ [](m_state = "Running" => 2 * NoiseScale = DefaultNoiseAutocorrelation)
    /\ [][m_state = "Running" => NoiseScale' = NoiseScale]_vars

\* reports of both sensors have been predicted and corrected since the
\* transition, and the scale is still half the default
C16_Witness ==
    /\ m_state = "Running"
    /\ nCycles >= 2
    /\ nOri > 0 /\ nPose > 0
    /\ CountOp(calls, "predict") = 1
    /\ 2 * NoiseScale = DefaultNoiseAutocorrelation

\* C17: at the transition the running filter is seeded from the latest
\* reports: last-pose timestamp = timestamp of the queried pose state,
\* last-orientation timestamp = timestamp of the queried orientation state
\* (not swapped), position = translation of cameraToRoom composed with the
\* queried pose, velocity and angular velocity zero, error covariance the
\* initial-uncertainty diagonal.
C17_Seeding ==
    Transitions(calls) # <<>> =>
        LET rd == m_runningData[1]
            roomPose == Compose(m_cTr, fromPose(videoState[1].state))
        IN  /\ rd.m_lastPosition = videoState[1].timestamp
            /\ rd.m_lastIMU = imuState[1].timestamp
            /\ rd.m_cTr = m_cTr
            /\ rd.m_filter.stateVector.position = roomPose.translation
            /\ rd.m_filter.stateVector.velocity = 0
            /\ rd.m_filter.stateVector.angularVelocity = 0
            /\ rd.m_filter.stateVector.incrementalOrientation = 0
            /\ rd.m_filter.quaternion = roomPose.rotation
            /\ rd.m_filter.errorCovariance = InitialStateError
            /\ rd.m_orientation = fromQuat(imuState[1].state)

\* a transition whose two queried states carry different timestamps and
\* whose seeded position is away from the origin
C17_Witness ==
    /\ Len(Transitions(calls)) = 1
    /\ m_state = "Running"
    /\ m_runningData[1].m_lastPosition # m_runningData[1].m_lastIMU
    /\ m_runningData[1].m_lastPosition = lastReport.timestamp
    /\ m_runningData[1].m_filter.stateVector.position # 0
    /\ m_runningData[1].m_filter.stateVector.velocity = 0

\* C18: an orientation report delivered in AcquiringCameraPose has no
\* effect on the controller: sample counter, accumulator's last timestamp,
\* smoothing filters and lifecycle state are unchanged, nothing is filtered
\* and nothing is sent (only the interface's last orientation state, which
\* pose reports query, is new).
C18_OrientationIgnoredInAcquisition ==
    [][(m_state = "AcquiringCameraPose" /\ lastReport'.sensor = "imu")
       => /\ m_startupData' = m_startupData
          /\ m_state' = m_state
          /\ m_runningData' = m_runningData
          /\ m_cTr' = m_cTr
          /\ nStartupPose' = nStartupPose
          /\ calls' = <<>>
          /\ sent' = <<>>
          /\ imuState' # <<>>]_vars

\* an orientation report was delivered in the middle of calibration, at a
\* time other than the accumulator's last sample, and left it alone
C18_Witness ==
    /\ Delivered("imu", "AcquiringCameraPose")
    /\ m_state = "AcquiringCameraPose"
    /\ m_startupData[1].reports > 0
    /\ m_startupData[1].reports = nStartupPose
    /\ m_startupData[1].last # lastReport.timestamp
    /\ calls = <<>> /\ sent = <<>>

\* C19: no report handled in AcquiringCameraPose emits a pose on either
\* channel, the pose report that completes calibration included; the first
\* emission comes from the first report delivered once the controller is
\* Running.
C19_SilentUntilRunning ==
    /\ lastReport.state # "Running" => sent = <<>>
    /\ Transitions(calls) # <<>> => sent = <<>>
    /\ nOri + nPose = 0 => nFused = 0
    /\ nOri + nPose = 1 => /\ nFused = 1
                           /\ lastReport.state = "Running"
                           /\ sent # <<>>
                           /\ sent[1].sensor = FUSED_SENSOR_ID
                           /\ sent[1].timestamp = lastReport.timestamp

\* the pose report that completed calibration has been handled: the
\* controller is Running and nothing has been sent yet
C19_Witness ==
    /\ Len(Transitions(calls)) = 1
    /\ lastReport.state = "AcquiringCameraPose"
    /\ m_state = "Running"
    /\ sent = <<>>
    /\ nFused = 0

\* C20: in Running a sensor's last-seen timestamp never moves backwards: it
\* changes only when a report of that sensor is accepted, and then to that
\* report's strictly later timestamp; so the reports that reach predict and
\* correct have strictly increasing timestamps per sensor, and every dt
\* passed to predict is > 0.
C20_LastSeenMonotonic ==
    [][m_state = "Running" =>
          /\ \A s \in {"imu", "video"} :
                 /\ Elapsed(OwnLast(s), OwnLast(s)') >= 0
                 /\ OwnLast(s)' # OwnLast(s) =>
                        /\ lastReport'.sensor = s
                        /\ OwnLast(s)' = lastReport'.timestamp
                        /\ Elapsed(OwnLast(s), OwnLast(s)') > 0
                        /\ Len(FilterCalls(calls')) = 2
                 /\ (lastReport'.sensor = s /\ FilterCalls(calls') # <<>>) =>
                        /\ OwnLast(s)' = lastReport'.timestamp
                        /\ Elapsed(OwnLast(s), lastReport'.timestamp) > 0
          /\ \A i \in 1..Len(calls') :
                 calls'[i].op = "predict" =>
                     /\ calls'[i].dt > 0
                     /\ calls'[i].dt = Elapsed(OwnLast(lastReport'.sensor),
                                               lastReport'.timestamp)]_vars

\* a pose report older than the last accepted one was skipped after a later
\* one had been accepted: the last-seen pose timestamp kept its later value
C20_Witness ==
    /\ Delivered("video", "Running")
    /\ nCycles >= 1
    /\ nPose >= 2
    /\ FilterCalls(calls) = <<>>
    /\ Elapsed(lastReport.timestamp, m_runningData[1].m_lastPosition) > 0
    /\ Elapsed(m_runningData[1].m_lastIMU, m_runningData[1].m_lastPosition) > 0

====
